---- MODULE Spec2Model ----
(***************************************************************************)
(* A model of parse_benchmark.py: a single straight-line script that       *)
(* decodes the test phase and metric from the basename of its argument,    *)
(* reads the CSV, converts the unit-suffixed cells to numbers, reshapes    *)
(* the Step column per test phase and draws the chart.                     *)
(*                                                                         *)
(* Text is modelled as a sequence of atoms.  In cells every atom is one    *)
(* character.  In paths the atoms are the separators "/" and "_" and       *)
(* separator-free words; in Step labels the atoms are the space, the       *)
(* decimal digits and digit-free, space-free words.  Python's str.split,   *)
(* str.replace, str.strip, int() and float() are computed on these         *)
(* sequences.                                                              *)
(***************************************************************************)
EXTENDS Integers, Sequences, FiniteSets, TLC

VARIABLES argv, pc, metric, test_phase, loaded, csv, df,
          first_df, second_df, third_df, numified_steps,
          test_phase_title, calls, stdout, status, exc

vars == <<argv, pc, metric, test_phase, loaded, csv, df,
          first_df, second_df, third_df, numified_steps,
          test_phase_title, calls, stdout, status, exc>>

(***************************************************************************)
(* Bounds of the explored inputs.                                          *)
(***************************************************************************)
MaxRows == 4
MaxExtraTokens == 1

(***************************************************************************)
(* Python text primitives.                                                 *)
(***************************************************************************)
Last(s) == s[Len(s)]

\* s.startswith(pat) at 0-based offset k
MatchAt(s, pat, k) ==
    /\ k + Len(pat) <= Len(s)
    /\ \A j \in 1..Len(pat) : s[k + j] = pat[j]

\* str.split(sep) for a one-atom separator: always at least one token
RECURSIVE SplitFrom(_, _, _, _)
SplitFrom(s, sep, i, cur) ==
    IF i > Len(s) THEN <<cur>>
    ELSE IF s[i] = sep THEN <<cur>> \o SplitFrom(s, sep, i + 1, <<>>)
    ELSE SplitFrom(s, sep, i + 1, Append(cur, s[i]))

Split(s, sep) == SplitFrom(s, sep, 1, <<>>)

\* str.replace(pat, rep): every non-overlapping occurrence, left to right
RECURSIVE ReplaceFrom(_, _, _, _)
ReplaceFrom(s, pat, rep, k) ==
    IF k >= Len(s) THEN <<>>
    ELSE IF MatchAt(s, pat, k)
         THEN rep \o ReplaceFrom(s, pat, rep, k + Len(pat))
         ELSE <<s[k + 1]>> \o ReplaceFrom(s, pat, rep, k + 1)

Replace(s, pat, rep) == ReplaceFrom(s, pat, rep, 0)

\* str.strip(): leading and trailing blanks removed
RECURSIVE LStrip(_)
LStrip(s) == IF s # <<>> /\ Head(s) = " " THEN LStrip(Tail(s)) ELSE s

RECURSIVE RStrip(_)
RStrip(s) ==
    IF s # <<>> /\ Last(s) = " " THEN RStrip(SubSeq(s, 1, Len(s) - 1)) ELSE s

Strip(s) == RStrip(LStrip(s))

Digits == {"0", "1", "2", "3", "4", "5", "6", "7", "8", "9"}

DigitVal(c) ==
    CASE c = "0" -> 0 [] c = "1" -> 1 [] c = "2" -> 2 [] c = "3" -> 3
      [] c = "4" -> 4 [] c = "5" -> 5 [] c = "6" -> 6 [] c = "7" -> 7
      [] c = "8" -> 8 [] c = "9" -> 9

AllDigits(s) == \A i \in 1..Len(s) : s[i] \in Digits

RECURSIVE DigitsVal(_)
DigitsVal(s) ==
    IF s = <<>> THEN 0
    ELSE 10 * DigitsVal(SubSeq(s, 1, Len(s) - 1)) + DigitVal(Last(s))

\* int(s) on blank-free text: a non-empty run of digits, else ValueError
IntOk(s) == s # <<>> /\ AllDigits(s)
IntVal(s) == DigitsVal(s)

\* A float is the pair of its decimal mantissa and the number of fractional
\* digits, with trailing fractional zeros removed: 12.50 = [m |-> 125, e |-> 1]
RECURSIVE Norm(_, _)
Norm(m, e) ==
    IF e > 0 /\ m % 10 = 0 THEN Norm(m \div 10, e - 1) ELSE [m |-> m, e |-> e]

\* float(s) on decimal literals: digits, optionally one ".", with at least
\* one digit; anything else over the model's alphabet is a ValueError
FloatOk(s) ==
    LET parts == Split(s, ".")
    IN /\ Len(parts) \in {1, 2}
       /\ \A i \in 1..Len(parts) : AllDigits(parts[i])
       /\ \E i \in 1..Len(parts) : parts[i] # <<>>

FloatVal(s) ==
    LET parts == Split(s, ".")
        frac == IF Len(parts) = 2 THEN parts[2] ELSE <<>>
    IN Norm(DigitsVal(parts[1] \o frac), Len(frac))

(***************************************************************************)
(* Filename decoding (lines 41-57).                                        *)
(***************************************************************************)
Metrics == {<<"memory">>, <<"cpu">>, <<"api">>}

\* the phase list of the script's docstring (lines 9-16), which leaves
\* rate-limiters out
TestPhasesOfDocstring ==
    {<<"idle">>, <<"deployment">>, <<"pod">>, <<"deployment-pods">>,
     <<"deployment-containers">>}

TestPhases == {<<"idle">>, <<"deployment">>, <<"pod">>, <<"deployment-pods">>,
               <<"deployment-containers">>, <<"rate-limiters">>}

\* file_path.split('/')[-1].split('_')
Filename(file_path) == Split(Last(Split(file_path, "/")), "_")

\* filename[-k]; only evaluated when FromEndOk
FromEnd(filename, k) == filename[Len(filename) - k + 1]
FromEndOk(filename, k) == k <= Len(filename)

MsgUsage == <<"Usage: python parse_benchmark.py <path_to_csv>",
              "Example: python parse_benchmark.py /path/to/pod_memory_results.csv">>
MsgSuffix == <<"Invalid file. Must end with results.csv">>
MsgMetric == <<"Invalid metric in file name. File name must look like <test_phase>_<metric>_results.csv">>
MsgPhase == <<"Invalid test phase in file name. File name must look like <test_phase>_<metric>_results.csv">>

\* The outcome of lines 41-57 on a path: "accept" with the decoded metric and
\* phase, "exit" with the printed message, or "raise" for the IndexError of a
\* negative index past the front of the token list
Decode(file_path) ==
    LET filename == Filename(file_path)
        none == <<>>
    IN IF FromEnd(filename, 1) # <<"results.csv">>
       THEN [kind |-> "exit", msg |-> MsgSuffix, metric |-> none, phase |-> none]
       ELSE IF ~FromEndOk(filename, 2)
       THEN [kind |-> "raise", msg |-> <<>>, metric |-> none, phase |-> none]
       ELSE IF FromEnd(filename, 2) \notin Metrics
       THEN [kind |-> "exit", msg |-> MsgMetric, metric |-> none, phase |-> none]
       ELSE IF ~FromEndOk(filename, 3)
       THEN [kind |-> "raise", msg |-> <<>>,
             metric |-> FromEnd(filename, 2), phase |-> none]
       ELSE IF FromEnd(filename, 3) \notin TestPhases
       THEN [kind |-> "exit", msg |-> MsgPhase,
             metric |-> FromEnd(filename, 2), phase |-> none]
       ELSE [kind |-> "accept", msg |-> <<>>,
             metric |-> FromEnd(filename, 2), phase |-> FromEnd(filename, 3)]

(***************************************************************************)
(* The table (pandas DataFrame): the Step column and the metric's columns, *)
(* each a sequence of cells in row order.                                  *)
(***************************************************************************)
cpu_memory_columns == <<"Operator", "Admission", "Recommender", "Updater">>
api_columns == <<"APIPerformance", "Webhook", "RequestLatency">>

Range(s) == {s[i] : i \in 1..Len(s)}

EmptyDf == [Step |-> <<>>, cols |-> [c \in {} |-> <<>>]]

\* len(df)
Rows(d) == Len(d.Step)

\* df.iloc[lo:hi]
Slice(d, lo, hi) ==
    [Step |-> SubSeq(d.Step, lo + 1, hi),
     cols |-> [c \in DOMAIN d.cols |-> SubSeq(d.cols[c], lo + 1, hi)]]

NoExc == [type |-> "", line |-> 0]
Raised(t, l) == [type |-> t, line |-> l]

(***************************************************************************)
(* Column normalization (lines 59-78).                                     *)
(***************************************************************************)
TargetColumns(m) == IF m = <<"api">> THEN api_columns ELSE cpu_memory_columns

\* the text each branch hands to str.replace
UnitText(m, column) ==
    IF m = <<"cpu">> THEN <<"m">>
    ELSE IF m = <<"memory">> THEN <<"M", "i", "B">>
    ELSE IF column = "APIPerformance" THEN <<"r", "e", "q", "/", "s">>
    ELSE <<"m", "s", "/", "r", "e", "q">>

\* x.replace(unit, '').strip(), the argument of float()
Stripped(x, unit) == Strip(Replace(x, unit, <<>>))

CellOk(x, unit) == FloatOk(Stripped(x, unit))
\* a conversion that keeps the whole part only, as int() would
CellValWhole(x, unit) == Norm(DigitsVal(Split(Stripped(x, unit), ".")[1]), 0)

CellVal(x, unit) == FloatVal(Stripped(x, unit))

ColumnOk(d, m, column) ==
    \A i \in 1..Rows(d) : CellOk(d.cols[column][i], UnitText(m, column))

\* index in TargetColumns of the first column whose apply raises, 0 if none
FirstBadColumn(d, m) ==
    LET bad == {k \in 1..Len(TargetColumns(m)) : ~ColumnOk(d, m, TargetColumns(m)[k])}
    IN IF bad = {} THEN 0 ELSE CHOOSE k \in bad : \A j \in bad : k <= j

\* the table after the loop: the columns before the first failing one are
\* assigned their converted values, the failing one and those after it are not
Normalized(d, m) ==
    LET fb == FirstBadColumn(d, m)
        tc == TargetColumns(m)
        done == {tc[k] : k \in {j \in 1..Len(tc) : fb = 0 \/ j < fb}}
    IN [d EXCEPT !.cols =
          [c \in DOMAIN d.cols |->
             IF c \in done
             THEN [i \in 1..Rows(d) |-> CellVal(d.cols[c][i], UnitText(m, c))]
             ELSE d.cols[c]]]

(***************************************************************************)
(* Plotting calls.  Each completed matplotlib/numpy call is appended to    *)
(* calls as a record; a call that raises appends nothing.                  *)
(***************************************************************************)
Call(fn, label, x, y, c) == [fn |-> fn, label |-> label, x |-> x, y |-> y, c |-> c]
Plain(fn, label) == Call(fn, label, <<>>, <<>>, "")

color_configs(k) ==
    IF k = <<"2">> THEN <<"#1b9e77", "#d95f02", "#7570b3">>
    ELSE IF k = <<"4">> THEN <<"#a6761d", "#666666", "#86BBD8">>
    ELSE <<"#66a61e", "#e6ab02", "#e7298a">>

\* x.split(' ')[0]
FirstToken(x) == Split(x, " ")[1]

\* plot_workloads (lines 135-175).  plt.scatter raises ValueError when x and y
\* differ in size; np.polyfit raises TypeError on an empty x
plot_workloads(m, type, x, d) ==
    LET colors == color_configs(FirstToken(type))
        columns == IF m = "api" THEN <<"APIPerformance", "Webhook", "RequestLatency">>
                   ELSE <<"Admission", "Recommender", "Updater">>
        points == IF m = "api"
                  THEN <<"API Performance ", "Webhook ", "API Request Latency ">>
                  ELSE <<"Admission ", "Recommender ", "Updater ">>
        lines == IF m = "api"
                 THEN <<"API Performance Regression ", "Webhook Regression ",
                        "Request Latency Regression ">>
                 ELSE <<"Admission eq ", "Recommender eq ", "Updater eq ">>
        scatters == [k \in 1..3 |->
                       Call("scatter", <<points[k]>> \o type, x, d.cols[columns[k]], colors[k])]
        fit(k) == <<Call("polyfit", <<>>, x, d.cols[columns[k]], ""),
                    Call("plot", <<lines[k]>> \o type, x, d.cols[columns[k]], colors[k])>>
    IN IF Len(x) # Rows(d)
       THEN [calls |-> <<>>, exc |-> Raised("ValueError", 144 + (IF m = "api" THEN 0 ELSE 16))]
       ELSE IF Len(x) = 0
       THEN [calls |-> scatters,
             exc |-> Raised("TypeError", 148 + (IF m = "api" THEN 0 ELSE 17))]
       ELSE [calls |-> scatters \o fit(1) \o fit(2) \o fit(3), exc |-> NoExc]

\* a run of plot_workloads calls, stopped by the first one that raises
RECURSIVE PlotAll(_, _, _, _)
PlotAll(m, types, x, dfs) ==
    IF types = <<>> THEN [calls |-> <<>>, exc |-> NoExc]
    ELSE LET one == plot_workloads(m, Head(types), x, Head(dfs))
             rest == PlotAll(m, Tail(types), x, Tail(dfs))
         IN IF one.exc # NoExc THEN one
            ELSE [calls |-> one.calls \o rest.calls, exc |-> rest.exc]

SplitPhases == {<<"deployment-pods">>, <<"deployment-containers">>}

\* the workload word of the three plot_workloads calls (lines 179-186, 197-204)
GroupTypes(phase) ==
    LET w == IF phase = <<"deployment-pods">> THEN "pods" ELSE "containers"
    IN <<(<<"1", " ", w>>), (<<"2", " ", w>>), (<<"4", " ", w>>)>>

\* lines 178-209: the plot_workloads calls of the phase, then the y label
PlotCalls(m, phase, x, d, d1, d2, d3) ==
    LET kind == IF m = <<"api">> THEN "api" ELSE "non-api"
        drawn == IF phase \in SplitPhases
                 THEN PlotAll(kind, GroupTypes(phase), x, <<d1, d2, d3>>)
                 ELSE PlotAll(kind, <<(<<>>)>>, x, <<d>>)
    IN drawn

YLabel(m) ==
    IF m = <<"cpu">> THEN <<"CPU Usage (m)">>
    ELSE IF m = <<"memory">> THEN <<"Memory Usage (MiB)">>
    ELSE <<"API Performance">>

\* test_phase_title (lines 88/91/98 and 191/194/208)
TitleTemplate(m) ==
    IF m = <<"cpu">> THEN <<"CPU Usage Over ", "REPLACE_ME", " (m) (interpolated)">>
    ELSE IF m = <<"memory">>
    THEN <<"Memory Usage Over ", "REPLACE_ME", " (MiB) (interpolated)">>
    ELSE <<"API Performance Over ", "REPLACE_ME", " (interpolated)">>

\* lines 211-225: the x label and the title of the phase
XLabel(phase) ==
    IF phase = <<"pod">> THEN <<"Number of Pods">>
    ELSE IF phase = <<"idle">> THEN <<"Idle after 20 minutes">>
    ELSE <<"Number of Deployments">>

\* the title lookup with the deployment-pods text pasted into the
\* deployment-containers branch
TitlePasted(phase, template) ==
    IF phase = <<"deployment">>
    THEN Replace(template, <<"REPLACE_ME">>, <<"Deployments">>)
    ELSE IF phase = <<"pod">>
    THEN Replace(template, <<"REPLACE_ME">>, <<"Pods">>)
    ELSE IF phase \in {<<"deployment-pods">>, <<"deployment-containers">>}
    THEN Replace(template, <<"REPLACE_ME">>, <<"Deployments and Pods">>)
    ELSE <<"Idle Performance">>

Title(phase, template) ==
    IF phase = <<"deployment">>
    THEN Replace(template, <<"REPLACE_ME">>, <<"Deployments">>)
    ELSE IF phase = <<"pod">>
    THEN Replace(template, <<"REPLACE_ME">>, <<"Pods">>)
    ELSE IF phase = <<"deployment-pods">>
    THEN Replace(template, <<"REPLACE_ME">>, <<"Deployments and Pods">>)
    ELSE IF phase = <<"deployment-containers">>
    THEN Replace(template, <<"REPLACE_ME">>, <<"Deployments and Containers">>)
    ELSE <<"Idle Performance">>

(***************************************************************************)
(* Step column reshaping (lines 80-82 and 108-130).                        *)
(***************************************************************************)
RatePrefix == <<"6", "4", " ", "deployments", " ">>

\* line 82
RateStep(x) == Replace(x, RatePrefix, <<>>)

\* int(len(df)/3) and int(2*len(df)/3)
FirstCut(n) == n \div 3
SecondCut(n) == (2 * n) \div 3

\* lines 110-115
SplitSteps(d) ==
    LET stepped == [d EXCEPT !.Step = [i \in 1..Rows(d) |-> FirstToken(d.Step[i])]]
        n == Rows(d)
        d1 == Slice(stepped, 0, FirstCut(n))
        d2 == Slice(stepped, FirstCut(n), SecondCut(n))
        d3 == Slice(stepped, SecondCut(n), n)
        ok == \A i \in 1..Rows(d1) : IntOk(d1.Step[i])
    IN [df |-> stepped, first_df |-> d1, second_df |-> d2, third_df |-> d3,
        numified_steps |-> IF ok THEN [i \in 1..Rows(d1) |-> IntVal(d1.Step[i])] ELSE <<>>,
        exc |-> IF ok THEN NoExc ELSE Raised("ValueError", 115)]

\* lines 117-118
IdleSteps(d) ==
    [df |-> [d EXCEPT !.Step = [i \in 1..Rows(d) |-> <<"1", " ", "Idle">>]],
     first_df |-> EmptyDf, second_df |-> EmptyDf, third_df |-> EmptyDf,
     numified_steps |-> [i \in 1..Rows(d) |-> 1],
     exc |-> NoExc]

\* the default branch numbering the rows by position instead of by label
DefaultStepsByPosition(d) ==
    LET e == IF Rows(d) = 0 THEN Raised("IndexError", 125)
             ELSE IF Len(Split(d.Step[1], " ")) # 2 THEN Raised("ValueError", 127)
             ELSE IF Len(Split(Last(d.Step), " ")) # 2 THEN Raised("ValueError", 128)
             ELSE NoExc
    IN [df |-> d, first_df |-> EmptyDf, second_df |-> EmptyDf, third_df |-> EmptyDf,
        numified_steps |-> [i \in 1..Rows(d) |-> i],
        exc |-> e]

\* lines 121-130
DefaultSteps(d) ==
    LET ok == \A i \in 1..Rows(d) : IntOk(FirstToken(d.Step[i]))
        e == IF ~ok THEN Raised("ValueError", 122)
             ELSE IF Rows(d) = 0 THEN Raised("IndexError", 125)
             ELSE IF Len(Split(d.Step[1], " ")) # 2 THEN Raised("ValueError", 127)
             ELSE IF Len(Split(Last(d.Step), " ")) # 2 THEN Raised("ValueError", 128)
             ELSE NoExc
    IN [df |-> d, first_df |-> EmptyDf, second_df |-> EmptyDf, third_df |-> EmptyDf,
        numified_steps |-> IF ok THEN [i \in 1..Rows(d) |-> IntVal(FirstToken(d.Step[i]))]
                           ELSE <<>>,
        exc |-> e]

Transformed(phase, d) ==
    IF phase \in SplitPhases THEN SplitSteps(d)
    ELSE IF phase = <<"idle">> THEN IdleSteps(d)
    ELSE DefaultSteps(d)

(***************************************************************************)
(* The explored inputs: command lines and CSV contents.                    *)
(***************************************************************************)
Script == <<"parse_benchmark.py">>

\* the '_'-separated tokens a basename is built from; <<>> is the empty token
Words == {<<"idle">>, <<"deployment">>, <<"pod">>, <<"deployment-pods">>,
          <<"deployment-containers">>, <<"rate-limiters">>,
          <<"memory">>, <<"cpu">>, <<"api">>, <<"results.csv">>, <<"x">>, <<>>}

RECURSIVE Join(_, _)
Join(tokens, sep) ==
    IF Len(tokens) = 1 THEN tokens[1]
    ELSE tokens[1] \o <<sep>> \o Join(Tail(tokens), sep)

Dirs == {<<>>, <<"a", "_", "b", "/">>}

\* basenames of one to three tokens
Basenames == {Join(t, "_") : t \in UNION {[1..k -> Words] : k \in 1..3}}

\* basenames of three tokens behind up to MaxExtraTokens more
LongBasenames ==
    {Join([i \in 1..k |-> <<"x">>] \o t, "_") :
        k \in 1..MaxExtraTokens, t \in [1..3 -> Words]}

Paths == {d \o b : d \in Dirs, b \in Basenames} \cup LongBasenames

Argvs == {<<Script>>, <<Script, <<"pod", "_", "cpu", "_", "results.csv">>, <<"x">>>>}
         \cup {<<Script, p>> : p \in Paths}

RECURSIVE IntDigits(_)
IntDigits(n) ==
    LET d == <<"0", "1", "2", "3", "4", "5", "6", "7", "8", "9">>
    IN IF n < 10 THEN <<d[n + 1]>> ELSE IntDigits(n \div 10) \o <<d[(n % 10) + 1]>>

RECURSIVE Zeros(_)
Zeros(k) == IF k <= 0 THEN <<>> ELSE <<"0">> \o Zeros(k - 1)

\* the decimal text of a number: "250", "512.5", "0.5"
Format(v) ==
    LET ds == IntDigits(v.m)
        padded == Zeros(v.e + 1 - Len(ds)) \o ds
        cut == Len(padded) - v.e
    IN IF v.e = 0 THEN ds
       ELSE SubSeq(padded, 1, cut) \o <<".">> \o SubSeq(padded, cut + 1, Len(padded))

\* the measurement written in row i of the k-th target column
BaseValue(i, k) == [m |-> 10 * i + k, e |-> (i + k) % 2]

BaseCell(m, column, i, k) == Format(BaseValue(i, k)) \o UnitText(m, column)

BaseLabel(phase, i) ==
    IF phase = <<"rate-limiters">> THEN RatePrefix \o <<"qps", " ">> \o IntDigits(i)
    ELSE IF phase = <<"pod">> THEN IntDigits(i) \o <<" ", "pods">>
    ELSE IntDigits(i) \o <<" ", "deployments">>

\* other cells a file may hold in place of a base cell
OddCells(u) ==
    {<<" ", "2", ".", "5">> \o u \o <<" ">>,
     u \o <<"2", ".", "5">>,
     <<"2">> \o u \o <<".", "5">>,
     <<"2", ".", "5">> \o u \o u,
     <<"2", ".", "5", "x">>,
     <<"2", " ", "5">> \o u}

\* other Step labels a file may hold in place of a base label
OddLabels(phase) ==
    IF phase = <<"rate-limiters">>
    THEN {<<"qps", " ">> \o RatePrefix \o <<"x">>,
          RatePrefix \o RatePrefix \o <<"x">>,
          <<"6", "4", " ", "deployments">>,
          <<"qps">>}
    ELSE {<<"5", " ", "big", " ", "pods">>,
          <<"1", "2", " ", "pods">>,
          <<"pods">>,
          <<"7">>}

BaseTable(m, phase, n) ==
    [Step |-> [i \in 1..n |-> BaseLabel(phase, i)],
     cols |-> [c \in Range(TargetColumns(m)) |->
                 LET k == CHOOSE j \in 1..Len(TargetColumns(m)) : TargetColumns(m)[j] = c
                 IN [i \in 1..n |-> BaseCell(m, c, i, k)]]]

\* the files read_csv may find: a base table of up to MaxRows rows, or one
\* with a single label or a single cell replaced
Tables(m, phase) ==
    UNION {
      {BaseTable(m, phase, n)}
      \cup {[BaseTable(m, phase, n) EXCEPT !.Step[r] = l] :
              r \in 1..n, l \in OddLabels(phase)}
      \cup UNION {{[BaseTable(m, phase, n) EXCEPT !.cols[c][r] = x] :
                     r \in 1..n, x \in OddCells(UnitText(m, c))} :
                  c \in Range(TargetColumns(m))}
      : n \in 0..MaxRows}

(***************************************************************************)
(* The script, one action per block of statements.                         *)
(***************************************************************************)
Init ==
    /\ argv \in Argvs
    /\ pc = "args"
    /\ metric = <<>>
    /\ test_phase = <<>>
    /\ loaded = FALSE
    /\ csv = EmptyDf
    /\ df = EmptyDf
    /\ first_df = EmptyDf
    /\ second_df = EmptyDf
    /\ third_df = EmptyDf
    /\ numified_steps = <<>>
    /\ test_phase_title = <<>>
    /\ calls = <<>>
    /\ stdout = <<>>
    /\ status = -1
    /\ exc = NoExc

\* lines 17-20
CheckArgs ==
    /\ pc = "args"
    /\ IF Len(argv) # 2
       THEN /\ stdout' = stdout \o MsgUsage
            /\ status' = 1
            /\ pc' = "exited"
       ELSE /\ pc' = "validate"
            /\ UNCHANGED <<stdout, status>>
    /\ UNCHANGED <<argv, metric, test_phase, loaded, csv, df, first_df, second_df,
                   third_df, numified_steps, test_phase_title, calls, exc>>

\* lines 41-57
ValidateFilename ==
    /\ pc = "validate"
    /\ LET r == Decode(argv[2])
       IN /\ metric' = r.metric
          /\ test_phase' = r.phase
          /\ stdout' = stdout \o r.msg
          /\ pc' = IF r.kind = "accept" THEN "read"
                   ELSE IF r.kind = "exit" THEN "exited" ELSE "crashed"
          /\ status' = IF r.kind = "accept" THEN status ELSE 1
          /\ exc' = IF r.kind = "raise"
                    THEN Raised("IndexError", IF r.metric = <<>> THEN 50 ELSE 54)
                    ELSE exc
    /\ UNCHANGED <<argv, loaded, csv, df, first_df, second_df, third_df,
                   numified_steps, test_phase_title, calls>>

\* line 62
ReadCsv ==
    /\ pc = "read"
    /\ \E t \in Tables(metric, test_phase) :
          /\ csv' = t
          /\ df' = t
    /\ loaded' = TRUE
    /\ pc' = "normalize"
    /\ UNCHANGED <<argv, metric, test_phase, first_df, second_df, third_df,
                   numified_steps, test_phase_title, calls, stdout, status, exc>>

\* lines 64-78
Normalize ==
    /\ pc = "normalize"
    /\ df' = Normalized(df, metric)
    /\ IF FirstBadColumn(df, metric) = 0
       THEN /\ pc' = "steps"
            /\ UNCHANGED <<status, exc>>
       ELSE /\ pc' = "crashed"
            /\ status' = 1
            /\ exc' = Raised("ValueError",
                             IF metric = <<"cpu">> THEN 66
                             ELSE IF metric = <<"memory">> THEN 69
                             ELSE IF FirstBadColumn(df, metric) = 1 THEN 73 ELSE 75)
    /\ UNCHANGED <<argv, metric, test_phase, loaded, csv, first_df, second_df,
                   third_df, numified_steps, test_phase_title, calls, stdout>>

\* the three plt.plot series of the rate-limiter chart (lines 84-86, 94-96)
RateLines(m, d) ==
    IF m = <<"api">>
    THEN <<Call("plot", <<"API Performance (req/s)">>, d.Step, d.cols["APIPerformance"], "o"),
           Call("plot", <<"Webhook (ms/req)">>, d.Step, d.cols["Webhook"], "x"),
           Call("plot", <<"API Request Latency (ms)">>, d.Step, d.cols["RequestLatency"], "s")>>
    ELSE <<Call("plot", <<"Admission">>, d.Step, d.cols["Admission"], "x"),
           Call("plot", <<"Recommender">>, d.Step, d.cols["Recommender"], "s"),
           Call("plot", <<"Updater">>, d.Step, d.cols["Updater"], "d")>>

\* the branch without its sys.exit(0): falling through to line 108
AfterRateShowFallThrough == "plot"

\* where the script goes after line 105
AfterRateShow == "exited"

\* lines 81-106
RateLimiters ==
    /\ pc = "steps"
    /\ test_phase = <<"rate-limiters">>
    /\ LET d == [df EXCEPT !.Step = [i \in 1..Rows(df) |-> RateStep(df.Step[i])]]
       IN /\ df' = d
          /\ calls' = calls \o RateLines(metric, d)
                      \o <<Plain("ylabel", YLabel(metric)),
                           Call("xticks", <<>>, [i \in 1..Rows(d) |-> i - 1], d.Step, ""),
                           Plain("tight_layout", <<>>),
                           Plain("legend", <<>>),
                           Plain("title", <<"Rate Limiter Configurations testing ">> \o metric),
                           Plain("show", <<>>)>>
    /\ test_phase_title' = TitleTemplate(metric)
    /\ pc' = AfterRateShow
    /\ status' = IF AfterRateShow = "exited" THEN 0 ELSE status
    /\ UNCHANGED <<argv, metric, test_phase, loaded, csv, first_df, second_df,
                   third_df, numified_steps, stdout, exc>>

\* lines 108-130
StepTransform ==
    /\ pc = "steps"
    /\ test_phase # <<"rate-limiters">>
    /\ LET r == Transformed(test_phase, df)
       IN /\ df' = r.df
          /\ first_df' = r.first_df
          /\ second_df' = r.second_df
          /\ third_df' = r.third_df
          /\ numified_steps' = r.numified_steps
          /\ exc' = r.exc
          /\ pc' = IF r.exc = NoExc THEN "plot" ELSE "crashed"
          /\ status' = IF r.exc = NoExc THEN status ELSE 1
    /\ UNCHANGED <<argv, metric, test_phase, loaded, csv, test_phase_title, calls, stdout>>

\* lines 132-209
PlotStandard ==
    /\ pc = "plot"
    /\ LET r == PlotCalls(metric, test_phase, numified_steps, df,
                          first_df, second_df, third_df)
       IN IF r.exc = NoExc
          THEN /\ calls' = calls \o <<Plain("figure", <<>>)>> \o r.calls
                           \o <<Plain("ylabel", YLabel(metric))>>
               /\ test_phase_title' = TitleTemplate(metric)
               /\ pc' = "labels"
               /\ UNCHANGED <<status, exc>>
          ELSE /\ calls' = calls \o <<Plain("figure", <<>>)>> \o r.calls
               /\ pc' = "crashed"
               /\ status' = 1
               /\ exc' = r.exc
               /\ UNCHANGED test_phase_title
    /\ UNCHANGED <<argv, metric, test_phase, loaded, csv, df, first_df, second_df,
                   third_df, numified_steps, stdout>>

\* lines 211-232
Finish ==
    /\ pc = "labels"
    /\ calls' = calls \o <<Plain("xlabel", XLabel(test_phase)),
                           Plain("title", Title(test_phase, test_phase_title)),
                           Plain("legend", <<>>),
                           Call("xticks", <<>>, numified_steps, <<>>, ""),
                           Plain("tight_layout", <<>>),
                           Plain("show", <<>>)>>
    /\ pc' = "exited"
    /\ status' = 0
    /\ UNCHANGED <<argv, metric, test_phase, loaded, csv, df, first_df, second_df,
                   third_df, numified_steps, test_phase_title, stdout, exc>>

Next ==
    \/ CheckArgs
    \/ ValidateFilename
    \/ ReadCsv
    \/ Normalize
    \/ RateLimiters
    \/ StepTransform
    \/ PlotStandard
    \/ Finish

Spec == Init /\ [][Next]_vars

(***************************************************************************)
(* Vocabulary of the properties, stated independently of the operators     *)
(* above.                                                                  *)
(***************************************************************************)
PhaseNames == {"idle", "deployment", "pod", "deployment-pods",
               "deployment-containers", "rate-limiters"}
MetricNames == {"memory", "cpu", "api"}

\* the '_'-separated tokens of the text after the last '/'
BasenameTokens == Split(Last(Split(argv[2], "/")), "_")

IsWord(t, names) == Len(t) = 1 /\ t[1] \in names

\* the basename is <phase>_<metric>_results.csv
ExactName ==
    /\ Len(BasenameTokens) = 3
    /\ IsWord(BasenameTokens[1], PhaseNames)
    /\ IsWord(BasenameTokens[2], MetricNames)
    /\ BasenameTokens[3] = <<"results.csv">>

\* the last three tokens of the basename are <phase>, <metric>, results.csv
TailName ==
    LET n == Len(BasenameTokens)
    IN /\ n >= 3
       /\ IsWord(BasenameTokens[n - 2], PhaseNames)
       /\ IsWord(BasenameTokens[n - 1], MetricNames)
       /\ BasenameTokens[n] = <<"results.csv">>

Terminated == pc \in {"exited", "crashed"}
Decided == Len(argv) = 2 /\ pc \notin {"args", "validate"}
Accepted == Decided /\ (pc = "read" \/ loaded)
Rejected == Decided /\ Terminated /\ ~loaded

C2_CleanExit ==
    (Len(argv) # 2 \/ (Len(argv) = 2 /\ ~TailName)) =>
        /\ ~loaded /\ df = EmptyDf /\ calls = <<>>
        /\ Terminated => pc = "exited" /\ status = 1 /\ exc = NoExc /\ stdout # <<>>

\* how far the run got
NormalizeDone ==
    loaded /\ pc # "normalize" /\ ~(pc = "crashed" /\ exc.line \in 64..78)
TransformRan == NormalizeDone /\ pc # "steps" /\ test_phase # <<"rate-limiters">>
TransformDone == TransformRan /\ ~(pc = "crashed" /\ exc.line \in 108..130)
PlotRan == TransformDone /\ pc # "plot"

InSplitPhase == test_phase \in {<<"deployment-pods">>, <<"deployment-containers">>}

CallsOf(fn) == {k \in 1..Len(calls) : calls[k].fn = fn}

\* the rows lo+1..hi of table d
RowsOf(d, lo, hi) ==
    [Step |-> [i \in 1..(hi - lo) |-> d.Step[lo + i]],
     cols |-> [c \in DOMAIN d.cols |-> [i \in 1..(hi - lo) |-> d.cols[c][lo + i]]]]

\* the leading run of atoms of a label, up to its first blank
RECURSIVE Leading(_)
Leading(x) ==
    IF x = <<>> \/ Head(x) = " " THEN <<>> ELSE <<Head(x)>> \o Leading(Tail(x))

GroupWords == <<"1", "2", "4">>

\* group g was drawn and fitted against the step numbers xs
GroupPlotted(g, d, xs) ==
    \A c \in DOMAIN d.cols \ {"Operator"} :
        /\ \E k \in CallsOf("scatter") :
              /\ calls[k].label[2] = GroupWords[g]
              /\ calls[k].x = xs
              /\ calls[k].y = d.cols[c]
        /\ \E k \in CallsOf("polyfit") :
              /\ calls[k].x = xs
              /\ calls[k].y = d.cols[c]

\* C3: in the two split phases the groups are the row ranges [0, n/3),
\* [n/3, 2n/3) and [2n/3, n) for every row count n, and all three groups are
\* plotted and fitted against the step numbers of the first group (the
\* plotting half is stated for the tables that give every group a row)
C3_SplitAndPlot ==
    LET n == Rows(csv)
        a == n \div 3
        b == (2 * n) \div 3
        xs == [i \in 1..a |-> DigitsVal(Leading(csv.Step[i]))]
    IN /\ (InSplitPhase /\ TransformRan) =>
             /\ first_df = RowsOf(df, 0, a)
             /\ second_df = RowsOf(df, a, b)
             /\ third_df = RowsOf(df, b, n)
       /\ (InSplitPhase /\ PlotRan /\ n >= 3) =>
             /\ pc # "crashed"
             /\ GroupPlotted(1, first_df, xs)
             /\ GroupPlotted(2, second_df, xs)
             /\ GroupPlotted(3, third_df, xs)

\* C4: in the two split phases the three groups have the same number of
\* rows, which is the length of the shared step sequence, for every row count
C4_EqualGroups ==
    (InSplitPhase /\ TransformDone) =>
        /\ Rows(first_df) = Rows(second_df)
        /\ Rows(second_df) = Rows(third_df)
        /\ Rows(third_df) = Len(numified_steps)

\* the unit each target column of a metric is written in
UnitOf(m, c) ==
    IF m = <<"cpu">> THEN <<"m">>
    ELSE IF m = <<"memory">> THEN <<"M", "i", "B">>
    ELSE IF c = "APIPerformance" THEN <<"r", "e", "q", "/", "s">>
    ELSE <<"m", "s", "/", "r", "e", "q">>

ColumnsOf(m) ==
    IF m = <<"api">> THEN {"APIPerformance", "Webhook", "RequestLatency"}
    ELSE {"Operator", "Admission", "Recommender", "Updater"}


Pads == {<<>>, <<" ">>}

\* cell is the number v written with unit u, blanks around it allowed
Written(cell, v, u) ==
    \E lead \in Pads, trail \in Pads : cell = lead \o Format(v) \o u \o trail

\* the numbers the explored files write in row i of a column
NumbersAt(i) == {[m |-> 25, e |-> 1]} \cup {BaseValue(i, k) : k \in 1..4}

\* C5: after normalization every target column of the metric holds, for each
\* well-formed cell <number><unit>, exactly that number
C5_LeftInverse ==
    (NormalizeDone /\ pc # "crashed") =>
        \A c \in ColumnsOf(metric) : \A i \in 1..Rows(csv) : \A v \in NumbersAt(i) :
            Written(csv.cols[c][i], v, UnitOf(metric, c)) => df.cols[c][i] = v

C5_Witness ==
    /\ NormalizeDone /\ pc = "steps" /\ metric = <<"memory">> /\ Rows(csv) >= 2
    /\ csv.cols["Operator"][2] = <<" ", "2", ".", "5", "M", "i", "B", " ">>
    /\ df.cols["Operator"][2] = [m |-> 25, e |-> 1]
    /\ csv.cols["Updater"][1] = <<"1", ".", "4", "M", "i", "B">>
    /\ df.cols["Updater"][1] = [m |-> 14, e |-> 1]

\* cell has the form <number><unit> with only surrounding blanks
WellFormed(cell, u) ==
    LET t == Strip(cell)
        k == Len(t) - Len(u)
    IN /\ k >= 1
       /\ SubSeq(t, k + 1, Len(t)) = u
       /\ FloatOk(SubSeq(t, 1, k))

Malformed ==
    \E c \in ColumnsOf(metric) : \E i \in 1..Rows(csv) :
        ~WellFormed(csv.cols[c][i], UnitOf(metric, c))

\* C6: a table with a malformed cell in a target column ends the run with a
\* parsing error before anything is plotted; no such cell becomes a number
C6_MalformedRaises ==
    (loaded /\ pc # "normalize" /\ Malformed) =>
        pc = "crashed" /\ exc.type = "ValueError" /\ calls = <<>>

\* C7: the rate-limiter phase removes the text "64 deployments " from a Step
\* label only where the label starts with it, and changes nothing else
C7_PrefixOnly ==
    LET prefix == <<"6", "4", " ", "deployments", " ">>
        expect(x) == IF Len(x) >= 5 /\ SubSeq(x, 1, 5) = prefix
                     THEN SubSeq(x, 6, Len(x)) ELSE x
    IN (test_phase = <<"rate-limiters">> /\ NormalizeDone /\ pc # "steps") =>
          \A i \in 1..Rows(csv) : df.Step[i] = expect(csv.Step[i])

RateTitle(k) == calls[k].label[1] = "Rate Limiter Configurations testing "

\* C8: a rate-limiters run that passed normalization draws line plots only,
\* fits nothing, shows the chart once and exits with status 0 without entering
\* the standard path; no other phase draws the rate-limiter chart
C8_RatePath ==
    /\ test_phase = <<"rate-limiters">> =>
          /\ pc \notin {"plot", "labels"}
          /\ numified_steps = <<>>
          /\ \A k \in 1..Len(calls) :
                calls[k].fn \notin {"scatter", "polyfit", "figure", "xlabel"}
          /\ (NormalizeDone /\ pc # "steps") =>
                /\ pc = "exited" /\ status = 0 /\ exc = NoExc
                /\ Cardinality(CallsOf("show")) = 1
                /\ Cardinality(CallsOf("plot")) = 3
                /\ \A k \in CallsOf("title") : RateTitle(k)
    /\ test_phase # <<"rate-limiters">> =>
          \A k \in CallsOf("title") : ~RateTitle(k)

C8_Witness ==
    /\ test_phase = <<"rate-limiters">> /\ pc = "exited" /\ status = 0
    /\ Rows(csv) >= 2 /\ Cardinality(CallsOf("show")) = 1

StandardPhases == {"idle", "deployment", "pod", "deployment-pods",
                   "deployment-containers"}

ExpectedYLabel ==
    IF metric = <<"cpu">> THEN "CPU Usage (m)"
    ELSE IF metric = <<"memory">> THEN "Memory Usage (MiB)"
    ELSE "API Performance"

PhaseText ==
    IF test_phase = <<"deployment">> THEN "Deployments"
    ELSE IF test_phase = <<"pod">> THEN "Pods"
    ELSE IF test_phase = <<"deployment-pods">> THEN "Deployments and Pods"
    ELSE "Deployments and Containers"

ExpectedTitle ==
    IF test_phase = <<"idle">> THEN <<"Idle Performance">>
    ELSE IF metric = <<"cpu">>
    THEN <<"CPU Usage Over ", PhaseText, " (m) (interpolated)">>
    ELSE IF metric = <<"memory">>
    THEN <<"Memory Usage Over ", PhaseText, " (MiB) (interpolated)">>
    ELSE <<"API Performance Over ", PhaseText, " (interpolated)">>

\* C9: on the standard path the y label, the title and the x label are fixed
\* by (metric, phase): the y label by the metric, the title the metric's
\* template with the phase text in place of REPLACE_ME; each is set once
C9_Labels ==
    (IsWord(test_phase, StandardPhases) /\ IsWord(metric, MetricNames)) =>
        /\ \A k \in CallsOf("ylabel") : calls[k].label = <<ExpectedYLabel>>
        /\ \A k \in CallsOf("title") :
              /\ calls[k].label = ExpectedTitle
              /\ "REPLACE_ME" \notin Range(calls[k].label)
        /\ \A k \in CallsOf("xlabel") : calls[k].label # <<>>
        /\ (PlotRan /\ pc = "exited") =>
              /\ Cardinality(CallsOf("ylabel")) = 1
              /\ Cardinality(CallsOf("title")) = 1
              /\ Cardinality(CallsOf("xlabel")) = 1

C9_Witness ==
    /\ pc = "exited" /\ test_phase = <<"pod">> /\ metric = <<"cpu">>
    /\ \E k \in CallsOf("title") :
          calls[k].label = <<"CPU Usage Over ", "Pods", " (m) (interpolated)">>
    /\ \E k \in CallsOf("ylabel") : calls[k].label = <<"CPU Usage (m)">>

\* the text of a label after its first blank
RECURSIVE AfterBlank(_)
AfterBlank(x) ==
    IF x = <<>> THEN <<>> ELSE IF Head(x) = " " THEN Tail(x) ELSE AfterBlank(Tail(x))

\* label has the form "<n> <label>"
Numbered(x) == " " \in Range(x) /\ Leading(x) # <<>> /\ AllDigits(Leading(x))

AllNumbered == Rows(csv) >= 1 /\ \A i \in 1..Rows(csv) : Numbered(csv.Step[i])

InSinglePhase == test_phase \in {<<"deployment">>, <<"pod">>}

RowNumbers == [i \in 1..Rows(csv) |-> DigitsVal(Leading(csv.Step[i]))]

\* every series of the chart is drawn against the row numbers
PlottedAgainstRows ==
    /\ CallsOf("scatter") # {}
    /\ \A k \in CallsOf("scatter") \cup CallsOf("polyfit") : calls[k].x = RowNumbers

\* C10 (as stated): in the deployment and pod phases a non-empty table of
\* "<n> <label>" steps reaches plotting with each row's leading integer as
\* its x value, whatever the label part contains
C10_Original ==
    (InSinglePhase /\ TransformRan /\ AllNumbered) =>
        /\ pc # "crashed"
        /\ numified_steps = RowNumbers
        /\ PlotRan => PlottedAgainstRows

\* C10 (amended): the same, for the tables whose first and last rows have a
\* label part free of blanks
C10_SingleWordEnds ==
    (/\ InSinglePhase /\ TransformRan /\ AllNumbered
     /\ " " \notin Range(AfterBlank(csv.Step[1]))
     /\ " " \notin Range(AfterBlank(csv.Step[Rows(csv)]))) =>
        /\ pc # "crashed"
        /\ numified_steps = RowNumbers
        /\ PlotRan => PlottedAgainstRows

C10_Witness ==
    /\ InSinglePhase /\ pc = "exited" /\ Rows(csv) >= 3
    /\ csv.Step[2] = <<"5", " ", "big", " ", "pods">>
    /\ numified_steps[2] = 5
    /\ PlottedAgainstRows

====
